---- MODULE Spec2Model ----
(***************************************************************************)
(* Model of starquad's geometry core: Interval (geom/interval.rs), Rect    *)
(* (geom/rect.rs), P2 (geom/p2.rs) and the Reference spatial index         *)
(* (accel2d/mod.rs, accel2d/reference.rs).                                 *)
(*                                                                         *)
(* Integer domains are the 8-bit registrations i8 and u8.  The unchecked   *)
(* operators `+` and `-` used by contains/intersect depend on the build:   *)
(* with overflow checks (debug) an out-of-range result aborts the call,    *)
(* without them (release) it wraps modulo 2^8.  Both builds are modelled.  *)
(* The float registrations (f32, f64) are not modelled.                    *)
(*                                                                         *)
(* The library is a set of pure functions, so each of SpecNew,             *)
(* SpecInterval and SpecRect performs one call on arguments drawn from the *)
(* domain; SpecIndex is the Reference index under any order of push,       *)
(* insert and query_rect.                                                  *)
(***************************************************************************)
EXTENDS Integers, Sequences, FiniteSets, Bags, TLC

VARIABLES
    dom,       \* the integer type S: "i8" or "u8"
    build,     \* "debug" (overflow checks on) or "release" (wrapping)
    pc,        \* "ready" before the call, "done" after it
    op,        \* the operation last called
    start,     \* argument of Interval::new
    diameter,  \* argument of Interval::new
    a,         \* an interval operand (self)
    b,         \* an interval operand (other)
    value,     \* the value tested by contains
    ra,        \* a rectangle operand (self), or the query rectangle
    rb,        \* a rectangle operand (other)
    point,     \* the point tested by Rect::contains
    ret,       \* what the last call returned
    items,     \* Reference.items
    inserted   \* every pair handed to push, in order (history)

vars == <<dom, build, pc, op, start, diameter, a, b, value, ra, rb, point,
          ret, items, inserted>>

---------------------------------------------------------------------------
(* Numeric domains *)

\* width of the i8 / u8 registrations
Bits == 8

Domains == {"i8", "u8"}

Builds == {"debug", "release"}

MinOf(d) == IF d = "i8" THEN -(2 ^ (Bits - 1)) ELSE 0

MaxOf(d) == IF d = "i8" THEN 2 ^ (Bits - 1) - 1 ELSE 2 ^ Bits - 1

Values(d) == MinOf(d) .. MaxOf(d)

InRange(d, x) == MinOf(d) <= x /\ x <= MaxOf(d)

\* two's-complement / modular wrap of a mathematical result into the domain
Wrap(d, x) == ((x - MinOf(d)) % (2 ^ Bits)) + MinOf(d)

Min2(x, y) == IF x < y THEN x ELSE y

\* Option<S> of CheckedAdd / CheckedSub
checked_add(d, x, y) ==
    IF InRange(d, x + y) THEN [some |-> TRUE, val |-> x + y]
                         ELSE [some |-> FALSE, val |-> 0]

checked_sub(d, x, y) ==
    IF InRange(d, x - y) THEN [some |-> TRUE, val |-> x - y]
                         ELSE [some |-> FALSE, val |-> 0]

\* the unchecked `+` of Num: abort (debug) or wrap (release) when the
\* mathematical result leaves the domain; ovf records that it did
add(d, bld, x, y) ==
    IF InRange(d, x + y) THEN [panic |-> FALSE, val |-> x + y, ovf |-> FALSE]
    ELSE IF bld = "debug" THEN [panic |-> TRUE, val |-> 0, ovf |-> TRUE]
    ELSE [panic |-> FALSE, val |-> Wrap(d, x + y), ovf |-> TRUE]

\* the unchecked `-` of Num
sub(d, bld, x, y) ==
    IF InRange(d, x - y) THEN [panic |-> FALSE, val |-> x - y, ovf |-> FALSE]
    ELSE IF bld = "debug" THEN [panic |-> TRUE, val |-> 0, ovf |-> TRUE]
    ELSE [panic |-> FALSE, val |-> Wrap(d, x - y), ovf |-> TRUE]

---------------------------------------------------------------------------
(* Interval *)

\* struct Interval { start, diameter }
Interval(s, dia) == [start |-> s, diameter |-> dia]

\* Option<Interval<S>>
None == [tag |-> "None", start |-> 0, diameter |-> 0]

Some(i) == [tag |-> "Some", start |-> i.start, diameter |-> i.diameter]

IsSome(o) == o.tag = "Some"

Unwrap(o) == Interval(o.start, o.diameter)

\* new_int_interval's non-negative branch validating the end (start +
\* diameter) instead of the last included value
new_int_interval_nonneg_end(d, s, dia) ==
    LET end == checked_add(d, s, dia) IN
    IF ~end.some THEN None ELSE Some(Interval(s, dia))

\* the non-negative branch of new_int_interval
new_int_interval_nonneg(d, s, dia) ==
    LET ofs == checked_sub(d, dia, 1) IN
    IF ~ofs.some THEN None
    ELSE LET last == checked_add(d, s, ofs.val) IN
         IF ~last.some THEN None ELSE Some(Interval(s, dia))

\* new_int_interval negating the diameter without moving the start
new_int_interval_keep_start(d, s, dia) ==
    IF dia < 0
    THEN LET new_diameter == checked_sub(d, 0, dia) IN
         IF ~new_diameter.some THEN None
         ELSE new_int_interval_nonneg(d, s, new_diameter.val)
    ELSE new_int_interval_nonneg(d, s, dia)

RECURSIVE new_int_interval(_, _, _)
new_int_interval(d, s, dia) ==
    IF dia < 0
    THEN LET new_start == checked_add(d, s, dia) IN
         IF ~new_start.some THEN None
         ELSE LET new_diameter == checked_sub(d, 0, dia) IN
              IF ~new_diameter.some THEN None
              ELSE new_int_interval(d, new_start.val, new_diameter.val)
    ELSE new_int_interval_nonneg(d, s, dia)

\* Interval::new through IntervalDomain::new_interval of an integer type
Interval_new(d, s, dia) == new_int_interval(d, s, dia)

\* Interval::contains; out is "true", "false" or "panic" (the call aborted)
contains(d, bld, self, v) ==
    IF v < self.start
    THEN [out |-> "false", ovf |-> FALSE]
    ELSE LET end == add(d, bld, self.start, self.diameter) IN
         IF end.panic THEN [out |-> "panic", ovf |-> TRUE]
         ELSE [out |-> IF v < end.val THEN "true" ELSE "false",
               ovf |-> end.ovf]

\* outcome of a call that aborted instead of returning an Option
Panic == [tag |-> "Panic", start |-> 0, diameter |-> 0]

\* Interval::intersect building the struct itself, from the difference taken
\* the wrong way round, instead of going through Interval::new
intersect_ordered_raw(d, bld, self, other) ==
    LET self_end == add(d, bld, self.start, self.diameter) IN
    IF self_end.panic
    THEN [opt |-> Panic, ovf |-> TRUE, path |-> "abort"]
    ELSE IF self_end.val < other.start
    THEN [opt |-> None, ovf |-> self_end.ovf, path |-> "disjoint"]
    ELSE LET other_end == add(d, bld, other.start, other.diameter) IN
         IF other_end.panic
         THEN [opt |-> Panic, ovf |-> TRUE, path |-> "abort"]
         ELSE IF self_end.val < other_end.val
         THEN [opt |-> Some(Interval(other.start, other.start - self_end.val)),
               ovf |-> self_end.ovf \/ other_end.ovf,
               path |-> "new"]
         ELSE [opt |-> Some(other),
               ovf |-> self_end.ovf \/ other_end.ovf,
               path |-> "copy"]

\* Interval::intersect once self.start <= other.start; path names the branch
\* that produced the result
intersect_ordered(d, bld, self, other) ==
    LET self_end == add(d, bld, self.start, self.diameter) IN
    IF self_end.panic
    THEN [opt |-> Panic, ovf |-> TRUE, path |-> "abort"]
    ELSE IF self_end.val < other.start
    THEN [opt |-> None, ovf |-> self_end.ovf, path |-> "disjoint"]
    ELSE LET other_end == add(d, bld, other.start, other.diameter) IN
         IF other_end.panic
         THEN [opt |-> Panic, ovf |-> TRUE, path |-> "abort"]
         ELSE IF self_end.val < other_end.val
         THEN LET new_diameter == sub(d, bld, self_end.val, other.start) IN
              IF new_diameter.panic
              THEN [opt |-> Panic, ovf |-> TRUE, path |-> "abort"]
              ELSE [opt |-> Interval_new(d, other.start, new_diameter.val),
                    ovf |-> self_end.ovf \/ other_end.ovf \/ new_diameter.ovf,
                    path |-> "new"]
         ELSE [opt |-> Some(other),
               ovf |-> self_end.ovf \/ other_end.ovf,
               path |-> "copy"]

\* Interval::intersect: swap the operands when self starts after other
intersect(d, bld, self, other) ==
    IF self.start > other.start
    THEN intersect_ordered(d, bld, other, self)
    ELSE intersect_ordered(d, bld, self, other)

\* test::intersection_point_membership: "pass", "fail" (an assertion or the
\* unwrap failed) or "panic" (an arithmetic overflow aborted the test)
intersection_point_membership(d, bld, ia, ib, v) ==
    LET opt_intersection == intersect(d, bld, ia, ib).opt
        ca == contains(d, bld, ia, v).out
        cb == contains(d, bld, ib, v).out
    IN
    IF opt_intersection = Panic THEN "panic"
    ELSE IF ca = "panic" THEN "panic"
    ELSE IF ca = "true" /\ cb = "panic" THEN "panic"
    ELSE IF ca = "true" /\ cb = "true"
    THEN IF ~IsSome(opt_intersection) THEN "fail"
         ELSE LET ci == contains(d, bld, Unwrap(opt_intersection), v).out IN
              IF ci = "panic" THEN "panic"
              ELSE IF ci = "true" THEN "pass" ELSE "fail"
    ELSE IF IsSome(opt_intersection)
    THEN LET ci == contains(d, bld, Unwrap(opt_intersection), v).out IN
         IF ci = "panic" THEN "panic"
         ELSE IF ci = "true" THEN "fail" ELSE "pass"
    ELSE "pass"

---------------------------------------------------------------------------
(* P2 and Rect *)

\* struct P2 { x, y }
P2(px, py) == [x |-> px, y |-> py]

\* struct Rect { x_interval, y_interval }
Rect(ix, iy) == [x_interval |-> ix, y_interval |-> iy]

\* Option<Rect<S>>, and the outcome of a call that aborted
NoRect == [tag |-> "None", x_interval |-> Interval(0, 0),
           y_interval |-> Interval(0, 0)]

SomeRect(r) == [tag |-> "Some", x_interval |-> r.x_interval,
                y_interval |-> r.y_interval]

PanicRect == [tag |-> "Panic", x_interval |-> Interval(0, 0),
              y_interval |-> Interval(0, 0)]

UnwrapRect(o) == Rect(o.x_interval, o.y_interval)

\* Rect::new
Rect_new(d, px, py, width, height) ==
    LET x_interval == Interval_new(d, px, width) IN
    IF ~IsSome(x_interval) THEN NoRect
    ELSE LET y_interval == Interval_new(d, py, height) IN
         IF ~IsSome(y_interval) THEN NoRect
         ELSE SomeRect(Rect(Unwrap(x_interval), Unwrap(y_interval)))

\* Rect::contains: `&&` evaluates the y axis only when the x axis holds
Rect_contains(d, bld, self, pt) ==
    LET cx == contains(d, bld, self.x_interval, pt.x).out IN
    IF cx = "true" THEN contains(d, bld, self.y_interval, pt.y).out ELSE cx

\* Rect::intersect keeping self's y interval instead of intersecting it
Rect_intersect_keep_y(d, bld, self, other) ==
    LET intersecting_x_interval ==
            intersect(d, bld, self.x_interval, other.x_interval).opt
    IN
    IF intersecting_x_interval = Panic THEN PanicRect
    ELSE IF ~IsSome(intersecting_x_interval) THEN NoRect
    ELSE SomeRect(Rect(Unwrap(intersecting_x_interval), self.y_interval))

\* Rect::intersect: the y axis is intersected only when the x axis overlaps
Rect_intersect(d, bld, self, other) ==
    LET intersecting_x_interval ==
            intersect(d, bld, self.x_interval, other.x_interval).opt
    IN
    IF intersecting_x_interval = Panic THEN PanicRect
    ELSE IF ~IsSome(intersecting_x_interval) THEN NoRect
    ELSE LET intersecting_y_interval ==
                 intersect(d, bld, self.y_interval, other.y_interval).opt
         IN
         IF intersecting_y_interval = Panic THEN PanicRect
         ELSE IF ~IsSome(intersecting_y_interval) THEN NoRect
         ELSE SomeRect(Rect(Unwrap(intersecting_x_interval),
                            Unwrap(intersecting_y_interval)))

---------------------------------------------------------------------------
(* Accel2D / Reference *)

\* outcome of query_rect: the references it collected, as positions in items
QueryOk(refs) == [tag |-> "ok", refs |-> refs]

QueryPanic == [tag |-> "panic", refs |-> <<>>]

NoResult == [tag |-> "none", refs |-> <<>>]

\* Reference::new
Reference_new == <<>>

\* Reference::push
push(its, item) == Append(its, item)

\* Accel2D::insert taking the items from the back of the batch
RECURSIVE insert_from_back(_, _)
insert_from_back(its, batch) ==
    IF batch = <<>> THEN its
    ELSE insert_from_back(push(its, batch[Len(batch)]),
                          SubSeq(batch, 1, Len(batch) - 1))

\* Accel2D::insert: drain the batch front to back, pushing each item
RECURSIVE insert(_, _)
insert(its, batch) ==
    IF batch = <<>> THEN its
    ELSE insert(push(its, Head(batch)), Tail(batch))

\* Accel2D::new_from_vec
new_from_vec(batch) == insert(Reference_new, batch)

\* the filter of query_rect over items[i..], in iteration order
RECURSIVE query_from(_, _, _, _, _)
query_from(d, bld, its, rect, i) ==
    IF i > Len(its) THEN QueryOk(<<>>)
    ELSE LET c == Rect_contains(d, bld, rect, its[i].point) IN
         IF c = "panic" THEN QueryPanic
         ELSE LET rest == query_from(d, bld, its, rect, i + 1) IN
              IF rest.tag = "panic" THEN QueryPanic
              ELSE IF c = "true" THEN QueryOk(<<i>> \o rest.refs)
              ELSE rest

\* Reference::query_rect
query_rect(d, bld, its, rect) == query_from(d, bld, its, rect, 1)

---------------------------------------------------------------------------
(* Interval::new applied to every pair of domain values *)

InitNew ==
    /\ dom \in Domains
    /\ build \in Builds
    /\ pc = "ready"
    /\ op = "none"
    /\ start = 0 /\ diameter = 0
    /\ a = None /\ b = None /\ value = 0
    /\ ra = NoRect /\ rb = NoRect /\ point = P2(0, 0)
    /\ ret = None
    /\ items = <<>> /\ inserted = <<>>

CallNew ==
    /\ pc = "ready"
    /\ \E s \in Values(dom), dia \in Values(dom) :
         /\ start' = s
         /\ diameter' = dia
         /\ ret' = Interval_new(dom, s, dia)
    /\ op' = "new"
    /\ pc' = "done"
    /\ UNCHANGED <<dom, build, a, b, value, ra, rb, point, items, inserted>>

NextNew == CallNew

SpecNew == InitNew /\ [][NextNew]_vars

---------------------------------------------------------------------------
(* contains / intersect applied to intervals that Interval::new returned *)

\* half-width of the windows of domain values the inputs are drawn from
NearK == 2

\* domain values near the minimum, near zero and near the maximum
Sample(d) ==
    {x \in Values(d) : \/ x - MinOf(d) <= NearK
                       \/ MaxOf(d) - x <= NearK
                       \/ (-NearK <= x /\ x <= NearK)}

\* the intervals Interval::new returns for sampled arguments
ValidIntervals(d) ==
    {Unwrap(Interval_new(d, s, dia)) :
        <<s, dia>> \in {p \in Sample(d) \X Sample(d) :
                          IsSome(Interval_new(d, p[1], p[2]))}}

InitInterval == InitNew

CallContains ==
    /\ pc = "ready"
    /\ \E ia \in ValidIntervals(dom), v \in Sample(dom) :
         /\ a' = Some(ia)
         /\ value' = v
         /\ ret' = contains(dom, build, ia, v)
    /\ op' = "contains"
    /\ pc' = "done"
    /\ UNCHANGED <<dom, build, start, diameter, b, ra, rb, point, items, inserted>>

CallIntersect ==
    /\ pc = "ready"
    /\ \E ia \in ValidIntervals(dom), ib \in ValidIntervals(dom) :
         /\ a' = Some(ia)
         /\ b' = Some(ib)
         /\ ret' = intersect(dom, build, ia, ib)
    /\ op' = "intersect"
    /\ pc' = "done"
    /\ UNCHANGED <<dom, build, start, diameter, value, ra, rb, point, items, inserted>>

CallMembership ==
    /\ pc = "ready"
    /\ \E ia \in ValidIntervals(dom), ib \in ValidIntervals(dom),
          v \in Sample(dom) :
         /\ a' = Some(ia)
         /\ b' = Some(ib)
         /\ value' = v
         /\ ret' = intersection_point_membership(dom, build, ia, ib, v)
    /\ op' = "membership"
    /\ pc' = "done"
    /\ UNCHANGED <<dom, build, start, diameter, ra, rb, point, items, inserted>>

NextInterval == CallContains \/ CallIntersect \/ CallMembership

SpecInterval == InitInterval /\ [][NextInterval]_vars

---------------------------------------------------------------------------
(* Rect operations applied to rectangles that Rect::new returned *)

\* width of the window below the domain maximum that rectangle arguments
\* are drawn from
RectK == 1

RectSample(d) ==
    {x \in Values(d) : (0 <= x /\ x <= 1) \/ MaxOf(d) - x <= RectK}

\* coordinates of the tested points: one step beyond the rectangle arguments
PointCoords(d) ==
    {x \in Values(d) : (0 <= x /\ x <= 2) \/ MaxOf(d) - x <= RectK + 1}

RectIntervals(d) ==
    {Unwrap(Interval_new(d, p[1], p[2])) :
        p \in {q \in RectSample(d) \X RectSample(d) :
                 IsSome(Interval_new(d, q[1], q[2]))}}

\* the rectangles Rect::new returns for sampled arguments
ValidRects(d) == {Rect(ix, iy) : ix \in RectIntervals(d), iy \in RectIntervals(d)}

InitRect == InitNew

\* ra records the arguments (x, width) and (y, height) as they were passed
CallRectNew ==
    /\ pc = "ready"
    /\ \E px \in RectSample(dom), py \in RectSample(dom),
          width \in RectSample(dom), height \in RectSample(dom) :
         /\ ra' = SomeRect(Rect(Interval(px, width), Interval(py, height)))
         /\ ret' = Rect_new(dom, px, py, width, height)
    /\ op' = "rect_new"
    /\ pc' = "done"
    /\ UNCHANGED <<dom, build, start, diameter, a, b, value, rb, point,
                   items, inserted>>

CallRectContains ==
    /\ pc = "ready"
    /\ \E r \in ValidRects(dom), px \in PointCoords(dom), py \in PointCoords(dom) :
         /\ ra' = SomeRect(r)
         /\ point' = P2(px, py)
         /\ ret' = Rect_contains(dom, build, r, P2(px, py))
    /\ op' = "rect_contains"
    /\ pc' = "done"
    /\ UNCHANGED <<dom, build, start, diameter, a, b, value, rb, items, inserted>>

CallRectIntersect ==
    /\ pc = "ready"
    /\ \E r \in ValidRects(dom), o \in ValidRects(dom) :
         /\ ra' = SomeRect(r)
         /\ rb' = SomeRect(o)
         /\ ret' = Rect_intersect(dom, build, r, o)
    /\ op' = "rect_intersect"
    /\ pc' = "done"
    /\ UNCHANGED <<dom, build, start, diameter, a, b, value, point,
                   items, inserted>>

NextRect == CallRectNew \/ CallRectContains \/ CallRectIntersect

SpecRect == InitRect /\ [][NextRect]_vars

---------------------------------------------------------------------------
(* A Reference index under push, insert and query_rect in any order *)

\* most pairs the index holds
MaxItems == 3

\* longest batch handed to insert
MaxBatch == 2

\* coordinates of the stored points and of the query rectangles
IndexCoords(d) == {0, MaxOf(d)}

\* widths and heights of the query rectangles
IndexDiameters == {1, 2}

Payloads == {"A", "B"}

\* the stored points: the origin and two points on the domain maximum
IndexPoints(d) == {P2(0, 0), P2(MaxOf(d), 0), P2(MaxOf(d), MaxOf(d))}

Pairs(d) == {[point |-> pt, item |-> t] : pt \in IndexPoints(d), t \in Payloads}

\* the batches of at most n pairs
Batches(d, n) == UNION {[1..k -> Pairs(d)] : k \in 0..n}

QueryIntervals(d) ==
    {Unwrap(Interval_new(d, p[1], p[2])) :
        p \in {q \in IndexCoords(d) \X IndexDiameters :
                 IsSome(Interval_new(d, q[1], q[2]))}}

QueryRects(d) ==
    {Rect(ix, iy) : ix \in QueryIntervals(d), iy \in QueryIntervals(d)}

\* Reference::new()
InitIndex ==
    /\ dom \in Domains
    /\ build \in Builds
    /\ pc = "ready"
    /\ op = "new"
    /\ start = 0 /\ diameter = 0
    /\ a = None /\ b = None /\ value = 0
    /\ ra = NoRect /\ rb = NoRect /\ point = P2(0, 0)
    /\ ret = NoResult
    /\ items = Reference_new /\ inserted = <<>>

Push ==
    /\ Len(items) < MaxItems
    /\ \E item \in Pairs(dom) :
         /\ items' = push(items, item)
         /\ inserted' = Append(inserted, item)
    /\ op' = "push"
    /\ ret' = NoResult
    /\ ra' = NoRect
    /\ UNCHANGED <<dom, build, pc, start, diameter, a, b, value, rb, point>>

Insert ==
    /\ \E batch \in Batches(dom, Min2(MaxBatch, MaxItems - Len(items))) :
         /\ items' = insert(items, batch)
         /\ inserted' = inserted \o batch
    /\ op' = "insert"
    /\ ret' = NoResult
    /\ ra' = NoRect
    /\ UNCHANGED <<dom, build, pc, start, diameter, a, b, value, rb, point>>

QueryRect ==
    /\ \E rect \in QueryRects(dom) :
         /\ ra' = SomeRect(rect)
         /\ ret' = query_rect(dom, build, items, rect)
    /\ op' = "query_rect"
    /\ UNCHANGED <<dom, build, pc, start, diameter, a, b, value, rb, point,
                   items, inserted>>

\* Accel2D::new_from_vec, building the index in place of Reference::new()
NewFromVec ==
    /\ op = "new"
    /\ \E batch \in Batches(dom, Min2(MaxBatch, MaxItems)) :
         /\ items' = new_from_vec(batch)
         /\ inserted' = batch
    /\ op' = "new_from_vec"
    /\ ret' = NoResult
    /\ ra' = NoRect
    /\ UNCHANGED <<dom, build, pc, start, diameter, a, b, value, rb, point>>

NextIndex == Push \/ Insert \/ NewFromVec \/ QueryRect

SpecIndex == InitIndex /\ [][NextIndex]_vars

---------------------------------------------------------------------------
(* Chains of calls: every interval or rectangle a caller can hold *)

\* a and b are the intervals held, ra the rectangle held.  Interval chains
\* and rectangle chains are explored apart: a rectangle's axes are intervals
\* produced by the same two functions.
InitChain ==
    /\ dom \in Domains
    /\ build \in Builds
    /\ pc = "ready"
    /\ op = "none"
    /\ start = 0 /\ diameter = 0
    /\ a = None /\ b = None /\ value = 0
    /\ ra = NoRect /\ rb = NoRect /\ point = P2(0, 0)
    /\ ret = None
    /\ items = <<>> /\ inserted = <<>>

\* what Interval::new and Rect::new return for the sampled arguments, per
\* domain
NewIntervals == [d \in Domains |-> ValidIntervals(d)]

NewRects == [d \in Domains |-> ValidRects(d)]

\* Interval::new returned an interval, kept as a or as b
ChainNew ==
    /\ ra = NoRect
    /\ \E i \in NewIntervals[dom] :
         \/ a' = Some(i) /\ b' = b
         \/ b' = Some(i) /\ a' = a
    /\ op' = "new"
    /\ UNCHANGED <<dom, build, pc, start, diameter, value, ra, rb, point, ret,
                   items, inserted>>

\* a.intersect(b) or b.intersect(a) returned an interval, kept as a or as b
ChainIntersect ==
    /\ IsSome(a) /\ IsSome(b)
    /\ \E swap \in BOOLEAN :
         LET r == IF swap
                  THEN intersect(dom, build, Unwrap(b), Unwrap(a)).opt
                  ELSE intersect(dom, build, Unwrap(a), Unwrap(b)).opt
         IN
         /\ IsSome(r)
         /\ \/ a' = r /\ b' = b
            \/ b' = r /\ a' = a
    /\ op' = "intersect"
    /\ UNCHANGED <<dom, build, pc, start, diameter, value, ra, rb, point, ret,
                   items, inserted>>

\* Rect::new returned a rectangle
ChainRectNew ==
    /\ a = None /\ b = None
    /\ \E r \in NewRects[dom] : ra' = SomeRect(r)
    /\ op' = "rect_new"
    /\ UNCHANGED <<dom, build, pc, start, diameter, a, b, value, rb, point, ret,
                   items, inserted>>

\* the rectangle held was intersected with one Rect::new returned
ChainRectIntersect ==
    /\ IsSome(ra)
    /\ \E o \in NewRects[dom], swap \in BOOLEAN :
         LET r == IF swap
                  THEN Rect_intersect(dom, build, o, UnwrapRect(ra))
                  ELSE Rect_intersect(dom, build, UnwrapRect(ra), o)
         IN
         /\ IsSome(r)
         /\ ra' = r
    /\ op' = "rect_intersect"
    /\ UNCHANGED <<dom, build, pc, start, diameter, a, b, value, rb, point, ret,
                   items, inserted>>

NextChain == ChainNew \/ ChainIntersect \/ ChainRectNew \/ ChainRectIntersect

SpecChain == InitChain /\ [][NextChain]_vars

---------------------------------------------------------------------------
(* Properties *)

\* the closed membership rule of integer intervals
Member(i, v) == i.start <= v /\ v <= i.start + i.diameter - 1

\* C1: for every interval Interval::new returns and every domain value v,
\* contains(v) is true if and only if start <= v <= start + diameter - 1.
C1_ContainsClosedRule ==
    (op = "contains") =>
        ret.out = (IF Member(a, value) THEN "true" ELSE "false")

\* C2: contains and intersect on valid intervals complete with a result and
\* never perform an addition or subtraction whose mathematical result lies
\* outside the domain (no overflow abort, no wrap-around).
C2_NoOverflow ==
    /\ (op = "contains") => (ret.out # "panic" /\ ~ret.ovf)
    /\ (op = "intersect") => (ret.opt # Panic /\ ~ret.ovf)

\* some value new_int_interval's non-negative branch computes leaves the domain
OutOfRangeNonNeg(d, s, dia) ==
    ~InRange(d, dia - 1) \/ ~InRange(d, s + (dia - 1))

\* some value Interval::new(s, dia) has to compute leaves the domain
OutOfRange(d, s, dia) ==
    IF dia < 0
    THEN \/ ~InRange(d, s + dia)
         \/ ~InRange(d, 0 - dia)
         \/ OutOfRangeNonNeg(d, s + dia, 0 - dia)
    ELSE OutOfRangeNonNeg(d, s, dia)

\* C3: Interval::new(start, diameter) is absent exactly when a value it has to
\* compute falls outside [MIN, MAX] and present otherwise, never wrapped and
\* never aborted; over i8 new(127, 2) and new(-127, -2) are absent, new(127, 1)
\* and new(-127, -1) present, and over u8 new(250, 7) is absent.
C3_NewAbsentIffOutOfRange ==
    /\ (op = "new") =>
          /\ ret.tag \in {"Some", "None"}
          /\ (ret = None) <=> OutOfRange(dom, start, diameter)
          /\ IsSome(ret) =>
                /\ InRange(dom, ret.start) /\ InRange(dom, ret.diameter)
                /\ ret.start = (IF diameter < 0 THEN start + diameter ELSE start)
                /\ ret.diameter = (IF diameter < 0 THEN 0 - diameter ELSE diameter)
    /\ (op = "new" /\ dom = "i8" /\ start = 127 /\ diameter = 2) => ret = None
    /\ (op = "new" /\ dom = "i8" /\ start = -127 /\ diameter = -2) => ret = None
    /\ (op = "new" /\ dom = "i8" /\ start = 127 /\ diameter = 1) =>
          ret = Some(Interval(127, 1))
    /\ (op = "new" /\ dom = "i8" /\ start = -127 /\ diameter = -1) =>
          ret = Some(Interval(-128, 1))
    /\ (op = "new" /\ dom = "u8" /\ start = 250 /\ diameter = 7) => ret = None

\* Interval::<i8>::new(127, 2) was called and returned None
C3_Witness ==
    op = "new" /\ dom = "i8" /\ start = 127 /\ diameter = 2 /\ ret = None

\* C4: when Interval::new(start, diameter) with diameter < 0 returns an
\* interval, it starts at start + diameter with diameter -diameter >= 0, equals
\* Interval::new(start + diameter, -diameter) and contains the same values.
C4_Normalization ==
    (op = "new" /\ diameter < 0 /\ IsSome(ret)) =>
        /\ ret.start = start + diameter
        /\ ret.diameter = 0 - diameter
        /\ ret.diameter >= 0
        /\ InRange(dom, start + diameter) /\ InRange(dom, 0 - diameter)
        /\ LET nonneg == Interval_new(dom, start + diameter, 0 - diameter) IN
           /\ ret = nonneg
           /\ {v \in Values(dom) : contains(dom, build, Unwrap(ret), v).out = "true"}
              = {v \in Values(dom) : contains(dom, build, Unwrap(nonneg), v).out = "true"}

\* Interval::<i8>::new(7, -4) was called and returned the interval (3, 4)
C4_Witness ==
    /\ op = "new" /\ dom = "i8" /\ start = 7 /\ diameter = -4
    /\ ret = Some(Interval(3, 4))

\* C5: a.intersect(b) and b.intersect(a) give the same outcome: both absent, or
\* both present with equal start and equal diameter.
C5_IntersectSymmetric ==
    (op = "intersect") =>
        LET ba == intersect(dom, build, Unwrap(b), Unwrap(a)).opt IN
        /\ ret.opt.tag \in {"Some", "None"}
        /\ ba.tag \in {"Some", "None"}
        /\ ret.opt = ba

\* C6: if a and b both contain v then a.intersect(b) is present and contains v;
\* if they do not both contain v then a.intersect(b), when present, does not
\* contain v (the property test::intersection_point_membership asserts).
C6_MembershipConsistent ==
    (op = "membership") => ret = "pass"

\* some domain value is contained in both intervals
Common(d, bld, ia, ib) ==
    \E v \in Values(d) : /\ contains(d, bld, ia, v).out = "true"
                         /\ contains(d, bld, ib, v).out = "true"

\* C7: a.intersect(b) is absent exactly when no value is contained in both a
\* and b (the adjacent case included), and a present result contains at least
\* one value.
C7_AbsentIffDisjoint ==
    (op = "intersect") =>
        /\ (ret.opt = None) <=> ~Common(dom, build, Unwrap(a), Unwrap(b))
        /\ IsSome(ret.opt) =>
              \E v \in Values(dom) :
                  contains(dom, build, Unwrap(ret.opt), v).out = "true"

\* C8: a present a.intersect(b) starts at right.start and has diameter
\* min(left.end, right.end) - right.start, where left is the operand with the
\* smaller start and end = start + diameter.
C8_ResultShape ==
    (op = "intersect" /\ IsSome(ret.opt)) =>
        LET left == IF a.start <= b.start THEN a ELSE b
            right == IF a.start <= b.start THEN b ELSE a
        IN /\ ret.opt.start = right.start
           /\ ret.opt.diameter =
                 Min2(left.start + left.diameter, right.start + right.diameter)
                 - right.start

\* the points tested against the rectangles
TestPoints(d) == {P2(px, py) : px \in PointCoords(d), py \in PointCoords(d)}

Count(q, pr) == Cardinality({k \in DOMAIN q : q[k] = pr})

\* C10: after any pushes and batch inserts, interleaved with queries,
\* query_rect(r) returns exactly the stored pairs whose point r contains, each
\* once per time it was inserted, and leaves the stored sequence unchanged.
C10_QueryExact ==
    (op = "query_rect") =>
        /\ ret.tag = "ok"
        /\ items = inserted
        /\ \A i \in DOMAIN ret.refs : \A j \in DOMAIN ret.refs :
              (i # j) => (ret.refs[i] # ret.refs[j])
        /\ \A pr \in Pairs(dom) :
              Count([k \in DOMAIN ret.refs |-> items[ret.refs[k]]], pr) =
                 (IF Rect_contains(dom, build, UnwrapRect(ra), pr.point) = "true"
                  THEN Count(inserted, pr) ELSE 0)

\* push applied to the first n pairs of batch, one after the other
RECURSIVE PushEach(_, _, _)
PushEach(its, batch, n) ==
    IF n = 0 THEN its ELSE push(PushEach(its, batch, n - 1), batch[n])

\* C11: insert([p1..pn]) leaves the index as push(p1); ...; push(pn) does:
\* earlier contents kept, the new pairs appended in list order; and
\* new_from_vec(items) is new() followed by insert(items).
C11_InsertIsSequentialPush ==
    [][(op' \in {"insert", "new_from_vec"}) =>
          LET batch == SubSeq(inserted', Len(inserted) + 1, Len(inserted'))
              before == IF op' = "new_from_vec" THEN Reference_new ELSE items
          IN /\ items' = PushEach(before, batch, Len(batch))
             /\ items' = before \o batch
             /\ (op' = "new_from_vec") => (items' = insert(Reference_new, batch))
      ]_vars

\* a batch of two different pairs was inserted into an index that already
\* held a pair
C11_Witness ==
    /\ op = "insert"
    /\ Len(items) = 3
    /\ items[2] # items[3]
    /\ items[1] # items[2]

\* new_from_vec built an index of two different pairs
C11_WitnessFromVec ==
    op = "new_from_vec" /\ Len(items) = 2 /\ items[1] # items[2]

\* the interval has a non-negative diameter and Interval::new accepts it as is
Valid(d, i) ==
    /\ i.diameter >= 0
    /\ Interval_new(d, i.start, i.diameter) = Some(i)

C13_ZeroDiameterAbsent ==
    (op = "new" /\ diameter = 0) => ret = None

====
